---- MODULE Spec2Model ----
(***************************************************************************)
(* Model of the quiz engine of sbr_quiz_app:                               *)
(*   - src/src/state/transitions.py : the run / exposure state machine    *)
(*     kept in st.session_state (start_new_run, next_question,             *)
(*     submit_answer);                                                     *)
(*   - src/src/state/session_state.py : the session keys and their        *)
(*     initial values (init_session_state);                                *)
(*   - src/src/domain/selection.py : pick_next_question_id and            *)
(*     compute_stats_from_attempt_rows;                                    *)
(*   - src/src/domain/scoring.py : score_attempt and its four scorers;    *)
(*   - src/app.py : main(), one run per user interaction, the score_fn     *)
(*     it hands to submit_answer, the provider _select_question_payload    *)
(*     and _persist_latest_attempt_if_any;                                 *)
(*   - src/src/io/storage.py : append_attempt and load_attempts, the       *)
(*     durable attempt log.                                                *)
(*                                                                         *)
(* Python values are encoded as follows.                                   *)
(*   Optional[T]   : None is <<>>, a value v is <<v>>.                     *)
(*   dict          : a function from its keys (strings) to values.         *)
(*   provider result (any Python object): [kind |-> "dict", items |-> d]   *)
(*                   or [kind |-> <other type name>].                      *)
(*   uuid4()       : the next value of a counter (uuid_count), so every    *)
(*                   draw differs from all earlier ones.                   *)
(* The timestamp_utc field of an attempt record (a wall-clock reading that *)
(* no operation reads back) is not part of the model.                      *)
(***************************************************************************)
EXTENDS Integers, Sequences, FiniteSets, TLC

(***************************************************************************)
(* Bounds of the model.                                                    *)
(***************************************************************************)
\* cap on global_exposures: next_question is not called beyond it
MaxExposures == 3

\* cap on global_exposures in the runs of app.main
MaxFlowExposures == 5

\* cap on the number of uuid4() draws
MaxUuid == 6

\* pick_next_question_id is applied to stats with exposures 0..MaxStatExposures
MaxStatExposures == 2
\* ... with attempts 0..MaxStatAttempts and correct 0..attempts
MaxStatAttempts == 1
\* ... and with attempts BigAttempts and BigAttempts + 1 (correct = 1), two
\* accuracies that differ by less than the tolerance of the weak-area tiebreak
BigAttempts == 40000

\* the default quiz size of start_new_run: int(quiz_size or 10)
DefaultQuizSize == 10
\* the quiz size init_session_state stores: K["quiz_size"] = 10
InitialQuizSize == 10
\* the tolerance 1e-9 of the weak-area tiebreak, as its inverse
EpsInverse == 1000000000

(***************************************************************************)
(* Optional values.                                                        *)
(***************************************************************************)
None == <<>>

Some(v) == <<v>>

(***************************************************************************)
(* The inputs the callers hand to the transitions.                         *)
(***************************************************************************)
\* question ids of the bank the provider draws from
QuestionIds == {"q1", "q2"}

\* the dict payload of a bank question (app._question_to_payload)
Payload(qid) ==
    [question_id |-> qid,
     question_type |-> IF qid = "q1" THEN "mcq_radio" ELSE "cloze_ab",
     topic |-> IF qid = "q4" THEN "cgt" ELSE "vat",
     component |-> CASE qid = "q2" -> "penalties"
                     [] qid = "q4" -> "requirements"
                     [] OTHER -> "definitions",
     subtopic |-> "s"]

\* what a provider (select_fn) may return: a well-formed payload, a dict
\* without 'question_id', a dict without 'question_type', or no dict at all
ProviderResults ==
    {[kind |-> "dict", items |-> Payload(qid)] : qid \in QuestionIds}
      \cup {[kind |-> "dict", items |-> [question_type |-> "mcq_radio"]],
            [kind |-> "dict", items |-> [question_id |-> "q1"]],
            [kind |-> "NoneType"]}

\* raw answers of the UI; None is "nothing selected"
UserAnswers == {None, Some("a"), Some("b")}

\* run_kind arguments of start_new_run
RunKinds == {"quiz", "free_play"}

\* quiz_size arguments of start_new_run (None and 0 select the default)
QuizSizes == {None, Some(0), Some(1), Some(2)}

(***************************************************************************)
(* State: the keys of st.session_state the transitions use.                *)
(***************************************************************************)
VARIABLES
    session_id,          \* K["session_id"]
    run_id,              \* K["run_id"]
    run_kind,            \* K["run_kind"]
    quiz_id,             \* K["quiz_id"]            Optional
    run_question_target, \* K["run_question_target"] Optional[int]
    run_questions_seen,  \* K["run_questions_seen"]
    run_score,           \* K["run_score"]
    run_completed,       \* K["run_completed"]
    current_q,           \* K["current_q"]          Optional[dict]
    selected_response,   \* K["selected_response"]  Optional
    answered,            \* K["answered"]
    is_correct,          \* K["is_correct"]         Optional[bool]
    last_scored_qid,     \* K["last_scored_qid"]    Optional[str]
    global_exposures,    \* K["global_exposures"]
    global_correct,      \* K["global_correct"]
    attempts,            \* K["attempts"]           list of attempt dicts
    uuid_count,          \* number of uuid4() values drawn so far
    last_call,           \* the last transition called and the path it took
    candidate_ids,       \* pick_next_question_id: argument candidate_ids
    stats,               \* pick_next_question_id: argument stats
    bias_weak_areas,     \* pick_next_question_id: argument bias_weak_areas
    picked,              \* pick_next_question_id: Optional returned id
    shown_ids,           \* the ids _select_question_payload has returned
    selected_topic,      \* K["selected_topic"]     Optional[str]
    quiz_size_setting,   \* K["quiz_size"]
    pc,                  \* app.main: "idle" between two script runs, else
                         \* the statement of main() the run has reached
    attempt_rows,        \* compute_stats_from_attempt_rows: its argument
    stats_out,           \* compute_stats_from_attempt_rows: Optional result
    bank_question,       \* app score_fn: bank.get(qid), Optional question
    user_answer_raw,     \* score_attempt: argument user_answer_raw
    score_result,        \* score_attempt: Optional outcome of the call
    score_fn_result,     \* app score_fn: Optional outcome of the call
    selected_mode,       \* K["selected_mode"]
    selected_component,  \* K["selected_component"] Optional[str]
    sequence_component_index,  \* st.session_state["sequence_component_index"]
    last_persisted_attempt_id, \* st.session_state.get(
                         \* "last_persisted_attempt_id"), Optional
    attempts_log,        \* rows of user_data/attempts/attempts_*.jsonl
    persisted_rows_cache \* st.cache_data entry of
                         \* _load_persisted_attempt_rows, Optional rows

run_vars == <<run_id, run_kind, quiz_id, run_question_target,
              run_questions_seen, run_score, run_completed>>

question_vars == <<current_q, selected_response, answered, is_correct,
                   last_scored_qid>>

session_vars == <<session_id, run_vars, question_vars, global_exposures,
                  global_correct, attempts, uuid_count>>

pick_vars == <<candidate_ids, stats, bias_weak_areas, picked, shown_ids>>

\* the sidebar selections of app.main
sidebar_vars == <<selected_topic, selected_mode, selected_component,
                  quiz_size_setting>>

\* the durable attempt log and what the app keeps about it
storage_vars == <<last_persisted_attempt_id, attempts_log,
                  persisted_rows_cache>>

app_vars == <<sidebar_vars, sequence_component_index, pc, storage_vars>>

agg_vars == <<attempt_rows, stats_out>>

\* the arguments and results of the pure functions
score_vars == <<bank_question, user_answer_raw, score_result,
                score_fn_result>>

fn_vars == <<pick_vars, agg_vars, score_vars>>

vars == <<session_vars, last_call, fn_vars, app_vars>>

(***************************************************************************)
(* init_session_state: the session after construction.                     *)
(***************************************************************************)
InitSession ==
    /\ session_id = 1
    /\ run_id = 2
    /\ uuid_count = 2
    /\ run_kind = "quiz"
    /\ quiz_id = None
    /\ run_question_target = None
    /\ run_questions_seen = 0
    /\ run_score = 0
    /\ run_completed = FALSE
    /\ current_q = None
    /\ selected_response = None
    /\ answered = FALSE
    /\ is_correct = None
    /\ last_scored_qid = None
    /\ global_exposures = 0
    /\ global_correct = 0
    /\ attempts = <<>>
    /\ last_call = [op |-> "init_session_state", path |-> "ok"]
    /\ selected_topic = None
    /\ selected_mode = "component_focus"
    /\ selected_component = None
    /\ quiz_size_setting = InitialQuizSize
    /\ sequence_component_index = 0
    /\ pc = "idle"
    /\ last_persisted_attempt_id = None
    /\ persisted_rows_cache = None

\* pick_next_question_id has not been called
NoPick ==
    /\ candidate_ids = <<>>
    /\ stats = <<>>
    /\ bias_weak_areas = FALSE
    /\ picked = None
    /\ shown_ids = {}

\* compute_stats_from_attempt_rows has not been called
NoAgg ==
    /\ attempt_rows = <<>>
    /\ stats_out = None

\* the scorer has not been called
NoScore ==
    /\ bank_question = None
    /\ user_answer_raw = None
    /\ score_result = None
    /\ score_fn_result = None

\* no attempts_*.jsonl file exists
NoHistory == attempts_log = <<>>

\* the session after construction
Init ==
    /\ InitSession
    /\ NoPick
    /\ NoAgg
    /\ NoScore
    /\ NoHistory

(***************************************************************************)
(* reset_per_question_ui_state / set_current_question                      *)
(***************************************************************************)
reset_KeepsIsCorrect ==
    /\ selected_response' = None
    /\ answered' = FALSE
    /\ is_correct' = is_correct
    /\ last_scored_qid' = None

reset_per_question_ui_state ==
    /\ selected_response' = None
    /\ answered' = FALSE
    /\ is_correct' = None
    /\ last_scored_qid' = None

set_current_question(q) ==
    /\ current_q' = Some(q)
    /\ reset_per_question_ui_state

(***************************************************************************)
(* start_new_run                                                           *)
(***************************************************************************)
\* int(quiz_size or 10)
QuizTarget(quiz_size) ==
    IF quiz_size = None \/ quiz_size = Some(0)
    THEN DefaultQuizSize
    ELSE quiz_size[1]

start_new_run(kind, quiz_size) ==
    /\ uuid_count + 2 <= MaxUuid
    /\ run_id' = uuid_count + 1
    /\ run_kind' = kind
    /\ IF kind = "quiz"
       THEN /\ quiz_id' = Some(uuid_count + 2)
            /\ run_question_target' = Some(QuizTarget(quiz_size))
            /\ uuid_count' = uuid_count + 2
       ELSE /\ quiz_id' = None
            /\ run_question_target' = None
            /\ uuid_count' = uuid_count + 1
    /\ run_questions_seen' = 0
    /\ run_score' = 0
    /\ run_completed' = FALSE
    /\ current_q' = None
    /\ reset_per_question_ui_state
    /\ last_call' = [op |-> "start_new_run", path |-> "ok"]
    /\ UNCHANGED <<session_id, global_exposures, global_correct, attempts>>

(***************************************************************************)
(* choose_next_question / next_question                                    *)
(***************************************************************************)
PayloadAccepted_NoTypeCheck(q) ==
    /\ q.kind = "dict"
    /\ "question_id" \in DOMAIN q.items

\* the checks of choose_next_question: does it return q (TRUE) or raise
PayloadAccepted(q) ==
    /\ q.kind = "dict"
    /\ "question_id" \in DOMAIN q.items
    /\ "question_type" \in DOMAIN q.items

CountExposure_Twice(n) == n + 2

\* run_questions_seen += 1 ; global_exposures += 1
CountExposure(n) == n + 1

next_question(q) ==
    IF PayloadAccepted(q)
       THEN /\ set_current_question(q.items)
            /\ run_questions_seen' = CountExposure(run_questions_seen)
            /\ global_exposures' = CountExposure(global_exposures)
            /\ last_call' = [op |-> "next_question", path |-> "ok"]
            /\ UNCHANGED <<session_id, run_id, run_kind, quiz_id,
                           run_question_target, run_score, run_completed,
                           global_correct, attempts, uuid_count>>
       ELSE /\ last_call' = [op |-> "next_question", path |-> "ValueError"]
            /\ UNCHANGED session_vars

(***************************************************************************)
(* submit_answer                                                           *)
(***************************************************************************)
NoAnswer_Never(user_answer) == FALSE

\* "No answer selected => do nothing": user_answer is None
NoAnswer(user_answer) == user_answer = None

AlreadyScored_Never(qid) == FALSE

\* the double-click guard of submit_answer
AlreadyScored(qid) ==
    last_scored_qid = Some(qid) /\ answered = TRUE

QuizTargetReached_Strict ==
    /\ run_kind = "quiz"
    /\ run_question_target # None
    /\ run_questions_seen > run_question_target[1]

QuizTargetReached_IgnoresMode ==
    run_questions_seen >= (IF run_question_target # None
                           THEN run_question_target[1] ELSE 0)

\* the quiz completion check of submit_answer
QuizTargetReached ==
    /\ run_kind = "quiz"
    /\ run_question_target # None
    /\ run_questions_seen >= run_question_target[1]

\* the attempt dict submit_answer appends
NewAttempt(q, user_answer, is_corr) ==
    [attempt_id |-> uuid_count + 1,
     session_id |-> session_id,
     run_id |-> run_id,
     mode |-> run_kind,
     quiz_id |-> quiz_id,
     topic |-> IF "topic" \in DOMAIN q THEN Some(q.topic) ELSE None,
     component |-> IF "component" \in DOMAIN q THEN Some(q.component) ELSE None,
     subtopic |-> IF "subtopic" \in DOMAIN q THEN Some(q.subtopic) ELSE None,
     question_id |-> q.question_id,
     question_type |-> IF "question_type" \in DOMAIN q
                       THEN Some(q.question_type) ELSE None,
     user_answer_raw |-> user_answer,
     is_correct |-> is_corr,
     exposure_index_in_run |-> run_questions_seen]

AppendAttempt_Overwrite(buf, attempt) == <<attempt>>

\* the buffer after st.session_state[K["attempts"]].append(attempt)
AppendAttempt(buf, attempt) == Append(buf, attempt)

\* is_corr is bool(score_fn(question=q, user_answer=user_answer)), the
\* result of the scorer the caller passes in
submit_answer(is_corr, user_answer) ==
    IF current_q = None
    THEN /\ last_call' = [op |-> "submit_answer", path |-> "no_question"]
         /\ UNCHANGED session_vars
    ELSE IF NoAnswer(user_answer)
    THEN /\ last_call' = [op |-> "submit_answer", path |-> "no_answer"]
         /\ UNCHANGED session_vars
    ELSE IF AlreadyScored(current_q[1].question_id)
    THEN /\ last_call' = [op |-> "submit_answer", path |-> "already_scored"]
         /\ UNCHANGED session_vars
    ELSE /\ uuid_count + 1 <= MaxUuid
         /\ selected_response' = user_answer
         /\ answered' = TRUE
         /\ is_correct' = Some(is_corr)
         /\ last_scored_qid' = Some(current_q[1].question_id)
         /\ run_score' = IF is_corr THEN run_score + 1 ELSE run_score
         /\ global_correct' = IF is_corr THEN global_correct + 1
                              ELSE global_correct
         /\ attempts' = AppendAttempt(attempts,
                            NewAttempt(current_q[1], user_answer, is_corr))
         /\ uuid_count' = uuid_count + 1
         /\ run_completed' = IF QuizTargetReached THEN TRUE ELSE run_completed
         /\ last_call' = [op |-> "submit_answer", path |-> "scored"]
         /\ UNCHANGED <<session_id, run_id, run_kind, quiz_id,
                        run_question_target, run_questions_seen, current_q,
                        global_exposures>>

(***************************************************************************)
(* The state machine: any caller, any order of calls.                      *)
(***************************************************************************)
StartNewRun ==
    /\ \E kind \in RunKinds, quiz_size \in QuizSizes :
           start_new_run(kind, quiz_size)
    /\ UNCHANGED <<fn_vars, app_vars>>

NextQuestion ==
    /\ global_exposures < MaxExposures
    /\ \E q \in ProviderResults : next_question(q)
    /\ UNCHANGED <<fn_vars, app_vars>>

SubmitAnswer ==
    /\ \E is_corr \in BOOLEAN, user_answer \in UserAnswers :
           submit_answer(is_corr, user_answer)
    /\ UNCHANGED <<fn_vars, app_vars>>

Next == StartNewRun \/ NextQuestion \/ SubmitAnswer

Spec == Init /\ [][Next]_vars

(***************************************************************************)
(* selection.py: QuestionStats and pick_next_question_id.                  *)
(*                                                                         *)
(* An accuracy (the float correct / attempts) is kept as the exact         *)
(* fraction <<correct, attempts>>; on the inputs of this model two         *)
(* different fractions differ by far more than a float rounding error, so  *)
(* comparing the fractions is comparing the floats.                        *)
(***************************************************************************)
\* QuestionStats(0, 0, 0)
ZeroStats == [exposures |-> 0, attempts |-> 0, correct |-> 0]

\* stats.get(qid, QuestionStats(0, 0, 0))
StatsGet(st, qid) == IF qid \in DOMAIN st THEN st[qid] ELSE ZeroStats

\* QuestionStats.accuracy: correct / attempts if attempts > 0, else 0.0
QuestionStatsAccuracy(s) ==
    IF s.attempts > 0 THEN <<s.correct, s.attempts>> ELSE <<0, 1>>

\* the inner function exposures(qid)
exposures(st, qid) == StatsGet(st, qid).exposures

\* the inner function accuracy(qid)
accuracy(st, qid) == QuestionStatsAccuracy(StatsGet(st, qid))

\* x < y on accuracies
AccuracyLess(x, y) == x[1] * y[2] < y[1] * x[2]

Abs(n) == IF n < 0 THEN -n ELSE n

\* abs(x - y) < 1e-9 on accuracies:
\* |x1/x2 - y1/y2| < 1/E  iff  |x1*y2 - y1*x2| * E < x2*y2
\*                       iff  |x1*y2 - y1*x2| <= (x2*y2 - 1) div E
AccuracyClose(x, y) ==
    Abs(x[1] * y[2] - y[1] * x[2]) <= (x[2] * y[2] - 1) \div EpsInverse

\* list.sort(key=...): a stable sort; lt[a][b] is key(a) < key(b)
RECURSIVE StableSort(_, _)
StableSort(seq, lt) ==
    IF seq = <<>>
    THEN <<>>
    ELSE LET init == StableSort(SubSeq(seq, 1, Len(seq) - 1), lt)
             x == seq[Len(seq)]
             k == Cardinality({i \in 1..Len(init) : ~lt[x][init[i]]})
         IN SubSeq(init, 1, k) \o <<x>> \o SubSeq(init, k + 1, Len(init))

SeqRange(seq) == {seq[i] : i \in 1..Len(seq)}

\* unseen = [...]; pool = unseen if unseen else candidate_ids[:];
\* pool.sort(key=exposures)
Pool(cands, st) ==
    LET unseen == SelectSeq(cands, LAMBDA qid : exposures(st, qid) = 0)
        ids == SeqRange(cands)
        lt == [a \in ids |-> [b \in ids |->
                   exposures(st, a) < exposures(st, b)]]
    IN StableSort(IF unseen # <<>> THEN unseen ELSE cands, lt)

MinGroup_WholePool(pool, st) == pool

\* min_exp = exposures(pool[0]) if pool else 0;
\* min_group = [qid for qid in pool if exposures(qid) == min_exp]
MinGroup(pool, st) ==
    LET min_exp == IF pool # <<>> THEN exposures(st, pool[1]) ELSE 0
    IN SelectSeq(pool, LAMBDA qid : exposures(st, qid) = min_exp)

Weakest_NoBias(min_group, st) == min_group

\* min_group.sort(key=accuracy); min_acc = accuracy(min_group[0]);
\* weakest = [qid for qid in min_group if abs(accuracy(qid) - min_acc) < 1e-9]
Weakest(min_group, st) ==
    LET ids == SeqRange(min_group)
        lt == [a \in ids |-> [b \in ids |->
                   AccuracyLess(accuracy(st, a), accuracy(st, b))]]
        sorted == StableSort(min_group, lt)
        min_acc == accuracy(st, sorted[1])
    IN SelectSeq(sorted,
                 LAMBDA qid : AccuracyClose(accuracy(st, qid), min_acc))

\* rng.choice(seq): the rng outcome r selects index r mod len(seq)
RngChoice(r, seq) == seq[(r % Len(seq)) + 1]

\* the rng outcomes that reach every index of every sublist of cands
RngOutcomes(cands) == 0..(Len(cands) - 1)

pick_next_question_id(cands, st, bias, r) ==
    LET min_group == MinGroup(Pool(cands, st), st)
    IN IF bias /\ Len(min_group) > 1
       THEN RngChoice(r, Weakest(min_group, st))
       ELSE RngChoice(r, min_group)

(***************************************************************************)
(* pick_next_question_id applied to every input of a bounded domain.       *)
(***************************************************************************)
\* ids of the candidate questions
SelIds == {"q1", "q2", "q3"}

\* non-empty lists of distinct ids (filter_candidate_ids walks the bank's keys)
CandidateLists ==
    UNION {{c \in [1..n -> SelIds] : \A i, j \in 1..n : c[i] = c[j] => i = j}
           : n \in 1..Cardinality(SelIds)}

\* <<attempts, correct>> of a QuestionStats
AttemptPairs ==
    {p \in (0..MaxStatAttempts) \X (0..MaxStatAttempts) : p[2] <= p[1]}
      \cup {<<BigAttempts, 1>>, <<BigAttempts + 1, 1>>}

StatValues ==
    {[exposures |-> e, attempts |-> p[1], correct |-> p[2]]
       : e \in 0..MaxStatExposures, p \in AttemptPairs}

\* dicts from some of the ids to QuestionStats
StatsMaps == UNION {[D -> StatValues] : D \in SUBSET SelIds}

SelInit ==
    /\ InitSession
    /\ candidate_ids \in CandidateLists
    /\ stats \in StatsMaps
    /\ bias_weak_areas \in BOOLEAN
    /\ picked = None
    /\ shown_ids = {}
    /\ NoAgg
    /\ NoScore
    /\ NoHistory

Pick ==
    /\ picked = None
    /\ \E r \in RngOutcomes(candidate_ids) :
           picked' = Some(pick_next_question_id(candidate_ids, stats,
                                                bias_weak_areas, r))
    /\ UNCHANGED <<session_vars, last_call, candidate_ids, stats,
                   bias_weak_areas, shown_ids, app_vars, agg_vars,
                   score_vars>>

SelNext == Pick

SelSpec == SelInit /\ [][SelNext]_vars

(***************************************************************************)
(* Python strings on which the code calls strip() or upper() are modelled  *)
(* as sequences of one-character strings.                                  *)
(***************************************************************************)
EmptyStr == <<>>

Whitespace == {" "}

\* str.strip(): leading and trailing whitespace removed
RECURSIVE Strip(_)
Strip(str) ==
    IF str = EmptyStr THEN EmptyStr
    ELSE IF Head(str) \in Whitespace THEN Strip(Tail(str))
    ELSE IF str[Len(str)] \in Whitespace
         THEN Strip(SubSeq(str, 1, Len(str) - 1))
    ELSE str

(***************************************************************************)
(* selection.py: compute_stats_from_attempt_rows.                          *)
(* A row is a dict: a function from some of the keys "question_id" (a      *)
(* string) and "is_correct" (True, False, or None for a JSON null) to      *)
(* values.                                                                 *)
(***************************************************************************)
\* r.get(key, default)
DictGet(r, key, default) == IF key \in DOMAIN r THEN r[key] ELSE default

\* bool(v) of an Optional[bool]: None is falsy
Truthy(v) == v # None /\ v[1]

\* qid = str(r.get("question_id", "")).strip()
RowQid(r) == Strip(DictGet(r, "question_id", EmptyStr))

SkipRow_Never(qid) == FALSE

\* if not qid: continue
SkipRow(qid) == qid = EmptyStr

SetDefault_Reset(agg, qid) == ZeroStats

\* agg.setdefault(qid, {"exposures": 0, "attempts": 0, "correct": 0})
SetDefault(agg, qid) == IF qid \in DOMAIN agg THEN agg[qid] ELSE ZeroStats

\* the three increments of the loop body
Bump(a, r) ==
    [exposures |-> a.exposures + 1,
     attempts |-> a.attempts + 1,
     correct |-> IF Truthy(DictGet(r, "is_correct", Some(FALSE)))
                 THEN a.correct + 1 ELSE a.correct]

\* one iteration of the loop over attempt_rows
AggRow(agg, r) ==
    LET qid == RowQid(r) IN
    IF SkipRow(qid) THEN agg
    ELSE [k \in DOMAIN agg \cup {qid} |->
             IF k = qid THEN Bump(SetDefault(agg, qid), r) ELSE agg[k]]

RECURSIVE AggRows(_, _)
AggRows(agg, rows) ==
    IF rows = <<>> THEN agg
    ELSE AggRows(AggRow(agg, Head(rows)), Tail(rows))

\* the map id -> QuestionStats the function returns
compute_stats_from_attempt_rows(rows) == AggRows(<<>>, rows)

\* number of rows of one call
MaxRows == 3

\* question_id values of rows: blank, padded and plain ids
RowIds == {<<" ">>, <<"q", "1">>, <<" ", "q", "1">>, <<"q", "2">>}

\* is_correct values of rows
RowFlags == {Some(TRUE), Some(FALSE), None}

\* the rows: with and without each of the two keys
Rows ==
    {[question_id |-> i, is_correct |-> c] : i \in RowIds, c \in RowFlags}
      \cup {[question_id |-> i] : i \in RowIds}
      \cup {[is_correct |-> c] : c \in RowFlags}

RowSeqs == UNION {[1..n -> Rows] : n \in 0..MaxRows}

AggInit ==
    /\ InitSession
    /\ NoPick
    /\ attempt_rows \in RowSeqs
    /\ stats_out = None
    /\ NoScore
    /\ NoHistory

ComputeStats ==
    /\ stats_out = None
    /\ stats_out' = Some(compute_stats_from_attempt_rows(attempt_rows))
    /\ UNCHANGED <<session_vars, last_call, pick_vars, attempt_rows,
                   app_vars, score_vars>>

AggNext == ComputeStats

AggSpec == AggInit /\ [][AggNext]_vars

(***************************************************************************)
(* scoring.py: score_attempt and the four scorers; app._score_fn_factory.  *)
(*                                                                         *)
(* A raw answer (any Python object) is a record tagged with its type:      *)
(*   [t |-> "int", n |-> n], [t |-> "bool", b |-> b], [t |-> "str", s |-> s]*)
(*   [t |-> "list", items |-> sequence of strings],                        *)
(*   [t |-> "dict", map |-> function from keys to strings],                *)
(*   [t |-> "NoneType"], [t |-> "float"].                                  *)
(* A call either returns (is_correct, details) or raises.                  *)
(***************************************************************************)
\* a call that returned (is_correct, details)
Returned(ok, details) == [raised |-> FALSE, ok |-> ok, details |-> details]

\* a call that raised an exception
Raised(error) == [raised |-> TRUE, error |-> error]

\* isinstance(x, int): bool is a subclass of int
IsInstanceInt(x) == x.t \in {"int", "bool"}

\* the value of an int or a bool in a comparison with an int
IntValue(x) == IF x.t = "bool" THEN (IF x.b THEN 1 ELSE 0) ELSE x.n

UpperChar(c) ==
    CASE c = "a" -> "A" [] c = "b" -> "B" [] OTHER -> c

Upper_Unchanged(str) == str

\* str.upper()
Upper(str) == [i \in 1..Len(str) |-> UpperChar(str[i])]

\* the smaller of two numbers
Min(a, b) == IF a <= b THEN a ELSE b

\* answers = answers[:n]; while len(answers) < n: answers.append("")
TruncPad(answers, n) ==
    [i \in 1..n |-> IF i <= Len(answers) THEN answers[i] ELSE EmptyStr]

\* f"gap{i}"
GapKey(i) == "gap" \o ToString(i)

\* f"slot{i}"
SlotKey(i) == "slot" \o ToString(i)

SelectedText_NoStrip(raw) ==
    IF ~IsInstanceInt(raw) /\ raw.t = "str" THEN Some(raw.s) ELSE None

\* selected_text of _score_mcq
SelectedText(raw) ==
    IF ~IsInstanceInt(raw) /\ raw.t = "str" THEN Some(Strip(raw.s)) ELSE None

\* selected_index of _score_mcq
SelectedIndex(raw) == IF IsInstanceInt(raw) THEN Some(IntValue(raw)) ELSE None

HasOptions_Always(q) == TRUE

\* the test "if q.options" of _score_mcq
HasOptions(q) == q.options # <<>>

\* q.options[i] raises IndexError unless -len <= i < len
IndexInRange(seq, i) == -Len(seq) <= i /\ i < Len(seq)

\* seq[i] of a Python list (0-based, negative from the end)
PyIndex(seq, i) == IF i >= 0 THEN seq[i + 1] ELSE seq[Len(seq) + i + 1]

_score_mcq(q, raw) ==
    IF HasOptions(q) /\ ~IndexInRange(q.options, q.correct_option_index)
    THEN Raised("IndexError")
    ELSE
    LET selected_index == SelectedIndex(raw)
        selected_text == SelectedText(raw)
        correct_text == IF HasOptions(q)
                        THEN PyIndex(q.options, q.correct_option_index)
                        ELSE EmptyStr
        is_corr == IF selected_index # None
                   THEN selected_index[1] = q.correct_option_index
                   ELSE IF selected_text # None
                   THEN selected_text[1] = correct_text
                   ELSE FALSE
    IN Returned(is_corr,
                [correct_option_index |-> q.correct_option_index,
                 correct_text |-> correct_text])

\* the answers of the two cloze scorers before truncation, each entry
\* being str(a).strip()
ClozeAnswers(q, raw) ==
    IF raw.t = "list"
    THEN [i \in 1..Len(raw.items) |-> Strip(raw.items[i])]
    ELSE IF raw.t = "dict"
    THEN [i \in 1..q.gap_count |->
             Strip(DictGet(raw.map, GapKey(i), EmptyStr))]
    ELSE <<>>

\* the per-gap comparison both cloze scorers make; default is the correct
\* value assumed for a gap beyond len(correct_by_gap)
PerGap(q, answers, default) ==
    [i \in 1..q.gap_count |->
        LET corr == IF i <= Len(q.correct_by_gap)
                    THEN q.correct_by_gap[i] ELSE default
        IN [gap |-> i, got |-> answers[i], correct |-> corr,
            ok |-> answers[i] = corr]]

_score_cloze_ab(q, raw) ==
    LET stripped == ClozeAnswers(q, raw)
        answers == TruncPad([i \in 1..Len(stripped) |-> Upper(stripped[i])],
                            q.gap_count)
        per_gap == PerGap(q, answers, <<"A">>)
    IN Returned(\A i \in 1..q.gap_count : per_gap[i].ok,
                [per_gap |-> per_gap])

AllowRepeat_Never(q, i) == FALSE

\* allow_repeat of gap i (1-based)
AllowRepeat(q, i) ==
    IF i <= Len(q.allow_repeat_by_gap) THEN q.allow_repeat_by_gap[i]
    ELSE FALSE

\* the uniqueness loop of _score_cloze_list from gap i on: TRUE when it
\* returns the duplicate failure
RECURSIVE ScanDuplicates(_, _, _, _)
ScanDuplicates(q, answers, i, seen) ==
    IF i > Len(answers) THEN FALSE
    ELSE IF answers[i] = EmptyStr
    THEN ScanDuplicates(q, answers, i + 1, seen)
    ELSE IF answers[i] \in seen /\ ~AllowRepeat(q, i) THEN TRUE
    ELSE ScanDuplicates(q, answers, i + 1, seen \cup {answers[i]})

DuplicateReason == "Duplicate choice across gaps not allowed"

_score_cloze_list(q, raw) ==
    LET answers == TruncPad(ClozeAnswers(q, raw), q.gap_count)
        per_gap == PerGap(q, answers, EmptyStr)
    IN IF q.enforce_unique_across_gaps
          /\ ScanDuplicates(q, answers, 1, {})
       THEN Returned(FALSE, [reason |-> DuplicateReason,
                             answers |-> answers])
       ELSE Returned(\A i \in 1..q.gap_count : per_gap[i].ok,
                     [per_gap |-> per_gap])

SameSequence_AnyOrder(placed, correct) ==
    /\ Len(placed) = Len(correct)
    /\ SeqRange(placed) = SeqRange(correct)

\* placed == correct
SameSequence(placed, correct) == placed = correct

_score_proforma_drag(q, raw) ==
    LET placed0 == IF raw.t = "list"
                   THEN [i \in 1..Len(raw.items) |-> Strip(raw.items[i])]
                   ELSE IF raw.t = "dict"
                   THEN [i \in 1..q.slot_count |->
                            Strip(DictGet(raw.map, SlotKey(i), EmptyStr))]
                   ELSE <<>>
        placed == TruncPad(placed0, q.slot_count)
        correct == SubSeq(q.slot_correct_line_ids, 1,
                          Min(q.slot_count, Len(q.slot_correct_line_ids)))
    IN Returned(SameSequence(placed, correct),
                [placed |-> placed, correct |-> correct])

UnknownReason == "Unknown question type"

\* dispatch by the class of the question
score_attempt(q, raw) ==
    IF q.class = "MCQRadioQuestion" THEN _score_mcq(q, raw)
    ELSE IF q.class = "ClozeABQuestion" THEN _score_cloze_ab(q, raw)
    ELSE IF q.class = "ClozeListQuestion" THEN _score_cloze_list(q, raw)
    ELSE IF q.class = "ProformaDragQuestion"
    THEN _score_proforma_drag(q, raw)
    ELSE Returned(FALSE, [reason |-> UnknownReason])

\* the score_fn app.py hands to submit_answer; bq is bank.get(qid), None
\* when the question_id of the payload is blank or not in the bank
score_fn(bq, raw) ==
    IF bq = None THEN Returned(FALSE, None)
    ELSE LET r == score_attempt(bq[1], raw)
         IN IF r.raised THEN r ELSE Returned(r.ok, None)

\* largest gap_count / slot_count of the questions scored
MaxGaps == 2

\* the strings answers are made of: two values, a padded lower-case one,
\* a padded one and the empty string
Tokens == {<<"A">>, <<"B">>, <<" ", "a">>, <<" ", "B">>, EmptyStr}

\* the values the bank records as correct
Values == {<<"A">>, <<"B">>}

\* questions as load_question_bank builds them: the correct index is
\* inside the options, or 0 when there are none
McqQuestions ==
    {[class |-> "MCQRadioQuestion", options |-> <<>>,
      correct_option_index |-> 0]}
      \cup {[class |-> "MCQRadioQuestion",
             options |-> <<<<"A">>, <<"B">>>>,
             correct_option_index |-> i] : i \in 0..1}

\* ... one correct letter and one allow-repeat flag per gap
ClozeABQuestions ==
    UNION {{[class |-> "ClozeABQuestion", gap_count |-> g,
             correct_by_gap |-> c] : c \in [1..g -> Values]} :
           g \in 1..MaxGaps}

ClozeListQuestions ==
    UNION {{[class |-> "ClozeListQuestion", gap_count |-> g,
             correct_by_gap |-> c, allow_repeat_by_gap |-> a,
             enforce_unique_across_gaps |-> e] :
               c \in [1..g -> Values], a \in [1..g -> BOOLEAN],
               e \in BOOLEAN} :
           g \in 1..MaxGaps}

\* ... at most slot_count correct line ids
ProformaDragQuestions ==
    UNION {{[class |-> "ProformaDragQuestion", slot_count |-> n,
             slot_correct_line_ids |-> c] :
               c \in UNION {[1..m -> Values] : m \in 0..n}} :
           n \in 1..MaxGaps}

\* a question of a class score_attempt does not know
UnknownQuestions == {[class |-> "BaseQuestion"]}

Questions ==
    McqQuestions \cup ClozeABQuestions \cup ClozeListQuestions
      \cup ProformaDragQuestions \cup UnknownQuestions

\* keys of dict answers
AnswerKeys(prefix) == {prefix \o ToString(i) : i \in 1..MaxGaps}

DictAnswers(prefix) ==
    UNION {[D -> Tokens] : D \in SUBSET AnswerKeys(prefix)}

RawAnswers ==
    {[t |-> "int", n |-> n] : n \in -1..2}
      \cup {[t |-> "bool", b |-> b] : b \in BOOLEAN}
      \cup {[t |-> "str", s |-> str] : str \in Tokens}
      \cup {[t |-> "list", items |-> l] :
               l \in UNION {[1..n -> Tokens] : n \in 0..MaxGaps}}
      \cup {[t |-> "dict", map |-> d] :
               d \in DictAnswers("gap") \cup DictAnswers("slot")}
      \cup {[t |-> "NoneType"], [t |-> "float"]}

ScoreInit ==
    /\ InitSession
    /\ NoPick
    /\ NoAgg
    /\ bank_question \in {None} \cup {Some(q) : q \in Questions}
    /\ user_answer_raw \in RawAnswers
    /\ score_result = None
    /\ score_fn_result = None
    /\ NoHistory

\* score_attempt on the bank question, and the app's score_fn
Score ==
    /\ score_fn_result = None
    /\ score_result' = IF bank_question = None THEN None
                       ELSE Some(score_attempt(bank_question[1],
                                               user_answer_raw))
    /\ score_fn_result' = Some(score_fn(bank_question, user_answer_raw))
    /\ UNCHANGED <<session_vars, last_call, pick_vars, agg_vars, app_vars,
                   bank_question, user_answer_raw>>

ScoreNext == Score

ScoreSpec == ScoreInit /\ [][ScoreNext]_vars

(***************************************************************************)
(* app.py: main(), the script Streamlit runs once per user interaction.    *)
(* One run of main() is a sequence of steps; pc is "idle" between two      *)
(* runs.  main() reads the sidebar widgets into the session, serves the    *)
(* "Start new run" button, makes sure a run and a question exist, and then *)
(* renders the header: _render_header_metrics reads K["exposures_seen"],   *)
(* a key the dict K of session_state.py does not have, so the run of       *)
(* main() ends there with a KeyError and the statements after line 638     *)
(* (the question card and its buttons) are not reached.                    *)
(***************************************************************************)
\* the keys of the bank dict, in the order load_question_bank inserted them
BankOrder == <<"q1", "q2", "q3", "q4">>

BankIds == SeqRange(BankOrder)

\* the topics of the bank, offered by the "Tax topic" selectbox
Topics == {Payload(qid).topic : qid \in BankIds}

\* what the "Tax topic" selectbox stores: None for "- Select -"
TopicChoices == {None} \cup {Some(t) : t \in Topics}

\* COMPONENT_SEQUENCE
ComponentSequence ==
    <<"definitions", "requirements", "exceptions", "proformas",
      "calculations", "filing_requirements", "penalties">>

\* RUN_MODES.values()
RunModes == {"component_focus", "full_sequence"}

\* values of the "Quiz size" slider (5 to 30 in steps of 5)
SliderValues == {5, 10}

Excluded_Never(wanted, actual) == FALSE

\* "if topic and q.topic != topic: continue", and the same for component
Excluded(wanted, actual) == wanted # None /\ actual # wanted[1]

\* selection.filter_candidate_ids(bank, topic=..., component=...)
filter_candidate_ids(topic, component) ==
    SelectSeq(BankOrder,
              LAMBDA qid : /\ ~Excluded(topic, Payload(qid).topic)
                           /\ ~Excluded(component, Payload(qid).component))

HasQuestions_Always(topic, comp) == TRUE

\* "ids = filter_candidate_ids(bank, topic=topic, component=comp); if ids:"
HasQuestions(topic, comp) == filter_candidate_ids(topic, Some(comp)) # <<>>

\* app._available_components_for_topic(bank, topic), for every topic of
\* the bank
AvailableComponents ==
    [t \in Topics |->
        SelectSeq(ComponentSequence, LAMBDA comp : HasQuestions(Some(t), comp))]

_available_components_for_topic(topic) == AvailableComponents[topic[1]]

Max(a, b) == IF a > b THEN a ELSE b

\* app._current_component_for_run(bank, topic, mode, component_focus)
_current_component_for_run(topic, mode, component_focus) ==
    IF topic = None
    THEN None
    ELSE IF mode = "component_focus"
    THEN component_focus
    ELSE LET available == _available_components_for_topic(topic)
             idx == Max(0, Min(sequence_component_index,
                               Len(available) - 1))
         IN IF available = <<>> THEN None ELSE Some(available[idx + 1])

\* the full-sequence fallback loop of _select_question_payload, from loop
\* value j on; written is the last value stored in sequence_component_index
RECURSIVE FallbackScan(_, _, _, _)
FallbackScan(topic, available, j, written) ==
    IF j >= Len(available)
    THEN [index |-> written, ids |-> <<>>, comp |-> None]
    ELSE LET ids == filter_candidate_ids(topic, Some(available[j + 1]))
         IN IF ids # <<>>
            THEN [index |-> j, ids |-> ids, comp |-> Some(available[j + 1])]
            ELSE FallbackScan(topic, available, j + 1, j)

\* the question_id of a row is a Python string: the characters of an id
IdChars(qid) ==
    CASE qid = "q1" -> <<"q", "1">>
      [] qid = "q2" -> <<"q", "2">>
      [] qid = "q3" -> <<"q", "3">>
      [] qid = "q4" -> <<"q", "4">>

\* what compute_stats_from_attempt_rows reads of an attempt dict
AttemptRow(a) ==
    [question_id |-> IdChars(a.question_id),
     is_correct |-> Some(a.is_correct)]

AttemptRows_Dropped(buf) == <<>>

\* in_session = st.session_state.get(K["attempts"], []): the rows of the
\* buffer as compute_stats_from_attempt_rows reads them
AttemptRows(buf) == [i \in 1..Len(buf) |-> AttemptRow(buf[i])]

\* the stats dict as pick_next_question_id looks it up: by question id
StatsById(st) ==
    [qid \in {q \in BankIds : IdChars(q) \in DOMAIN st} |-> st[IdChars(qid)]]

LoadPersisted_Nothing == <<>>

\* _load_persisted_attempt_rows() under st.cache_data: the first call reads
\* the files, every later call returns the cached rows
_load_persisted_attempt_rows ==
    IF persisted_rows_cache = None
    THEN attempts_log
    ELSE persisted_rows_cache[1]

\* app._select_question_payload(bank, context=ctx) up to the call of
\* pick_next_question_id: the exception it raises, or the arguments of the
\* call.  index is the value sequence_component_index holds at that point.
SelectionInputs(topic, mode, component_focus) ==
    LET comp == _current_component_for_run(topic, mode, component_focus)
        first == filter_candidate_ids(topic, comp)
        scan == IF first = <<>> /\ mode = "full_sequence"
                THEN FallbackScan(topic,
                                  _available_components_for_topic(topic),
                                  sequence_component_index + 1,
                                  sequence_component_index)
                ELSE [index |-> sequence_component_index, ids |-> first,
                      comp |-> comp]
        persisted == _load_persisted_attempt_rows
    IN IF comp = None
       THEN [raised |-> TRUE, index |-> sequence_component_index]
       ELSE IF scan.ids = <<>>
       THEN [raised |-> TRUE, index |-> scan.index]
       ELSE [raised |-> FALSE, index |-> scan.index,
             candidate_ids |-> scan.ids, comp |-> scan.comp,
             persisted |-> persisted,
             stats |-> StatsById(compute_stats_from_attempt_rows(
                                     persisted \o AttemptRows(attempts)))]

\* next_question(lambda context: _select_question_payload(bank,
\* context=context), context=ctx) with ctx read from the session and the
\* "Bias weak areas" checkbox; r is the outcome of the rng.  candidate_ids
\* and stats keep the arguments the call passed to pick_next_question_id,
\* picked keeps its result, shown_ids every result of the session
next_question_from_bank ==
    \E sel \in {SelectionInputs(selected_topic, selected_mode,
                                selected_component)} :
       /\ sequence_component_index' = sel.index
       /\ UNCHANGED bias_weak_areas
       /\ IF sel.raised
          THEN /\ last_call' = [op |-> "next_question",
                                path |-> "ValueError"]
               /\ UNCHANGED <<session_vars, candidate_ids, stats, picked,
                              shown_ids, persisted_rows_cache>>
          ELSE \E bias_weak \in BOOLEAN, r \in RngOutcomes(sel.candidate_ids) :
                 \E qid \in {pick_next_question_id(sel.candidate_ids,
                                                   sel.stats, bias_weak, r)} :
                   /\ next_question([kind |-> "dict", items |-> Payload(qid)])
                   /\ persisted_rows_cache' = Some(sel.persisted)
                   /\ candidate_ids' = sel.candidate_ids
                   /\ stats' = sel.stats
                   /\ picked' = Some(qid)
                   /\ shown_ids' = shown_ids \cup {qid}

\* the value the "Component" selectbox shows if the user leaves it alone
ComponentShown(topic) ==
    IF /\ selected_component # None
       /\ selected_component[1]
            \in SeqRange(_available_components_for_topic(topic))
    THEN selected_component
    ELSE None

\* the options of the "Component" selectbox, None for "- Select -"; the
\* selectbox exists in component_focus mode once a topic is selected
ComponentChoices(topic, mode) ==
    IF mode = "component_focus" /\ topic # None
    THEN {None} \cup {Some(c) : c \in
                        SeqRange(_available_components_for_topic(topic))}
    ELSE {None}

\* one user interaction triggers one run of main(): at most one widget
\* differs from the value the session holds, or the button was pressed
OneInteraction(topic, mode, comp, kind, size, button) ==
    Cardinality({w \in {"topic", "mode", "component", "kind", "size",
                        "button"} :
                    \/ w = "topic" /\ topic # selected_topic
                    \/ w = "mode" /\ mode # selected_mode
                    \/ w = "component"
                         /\ mode = "component_focus" /\ topic # None
                         /\ comp # ComponentShown(topic)
                    \/ w = "kind" /\ kind # run_kind
                    \/ w = "size" /\ size # quiz_size_setting
                    \/ w = "button" /\ button}) <= 1

\* st.session_state[K["run_kind"]] = RUN_KINDS[run_kind_label]
RunKindWritten(kind, button) == kind

\* the return or the exception that ends a run of main()
EndOfRun == pc' = "idle"

\* the topic guard and the test of the "ensure" branch, on the topic the
\* sidebar stored: the statement main() goes to
AfterGuard(topic, question, completed) ==
    IF topic = None THEN "idle"
    ELSE IF question = None /\ ~completed THEN "ensure_run"
    ELSE "header"

\* the sidebar: the widget values are written to the session
Sidebar ==
    /\ pc = "idle"
    /\ \E topic \in TopicChoices, mode \in RunModes, kind \in RunKinds,
          size \in SliderValues, button \in BOOLEAN :
         \E comp \in ComponentChoices(topic, mode) :
           /\ OneInteraction(topic, mode, comp, kind, size, button)
           /\ selected_topic' = topic
           /\ selected_mode' = mode
           /\ selected_component' = comp
           /\ run_kind' = RunKindWritten(kind, button)
           /\ quiz_size_setting' = size
           /\ pc' = IF button THEN "start_button"
                    ELSE AfterGuard(topic, current_q, run_completed)
    /\ last_call' = [op |-> "main", path |-> "sidebar"]
    /\ UNCHANGED <<session_id, run_id, quiz_id, run_question_target,
                   run_questions_seen, run_score, run_completed,
                   question_vars, global_exposures, global_correct,
                   attempts, uuid_count, fn_vars,
                   sequence_component_index, storage_vars>>

MainSidebar == Sidebar

\* if st.sidebar.button("Start new run"): start_new_run(...); then the
\* topic guard and the test of the "ensure" branch
MainStartButton ==
    /\ pc = "start_button"
    /\ sequence_component_index' = 0
    /\ start_new_run(run_kind, Some(quiz_size_setting))
    /\ pc' = AfterGuard(selected_topic, current_q', run_completed')
    /\ UNCHANGED <<sidebar_vars, storage_vars, fn_vars>>

\* the "ensure" branch: a new run of the kind the session holds
MainEnsureRun ==
    /\ pc = "ensure_run"
    /\ IF run_kind = "quiz"
       THEN start_new_run("quiz", Some(quiz_size_setting))
       ELSE start_new_run("free_play", None)
    /\ sequence_component_index' = 0
    /\ pc' = "ensure_question"
    /\ UNCHANGED <<sidebar_vars, storage_vars, fn_vars>>

\* the "ensure" branch: next_question with _select_question_payload as
\* provider; a ValueError of the provider ends main()
MainEnsureQuestion ==
    /\ pc = "ensure_question"
    /\ global_exposures < MaxFlowExposures
    /\ next_question_from_bank
    /\ pc' = IF last_call'.path = "ok" THEN "header" ELSE "idle"
    /\ UNCHANGED <<sidebar_vars, last_persisted_attempt_id, attempts_log,
                   agg_vars, score_vars>>

\* _render_header_metrics(): KeyError on K["exposures_seen"] ends main()
MainHeader ==
    /\ pc = "header"
    /\ EndOfRun
    /\ last_call' = [op |-> "_render_header_metrics", path |-> "KeyError"]
    /\ UNCHANGED <<session_vars, sidebar_vars, sequence_component_index,
                   storage_vars, fn_vars>>

AppNext ==
    \/ MainSidebar
    \/ MainStartButton
    \/ MainEnsureRun
    \/ MainEnsureQuestion
    \/ MainHeader

AppSpec == Init /\ [][AppNext]_vars

(***************************************************************************)
(* app.py: the page below the header (main(), lines 639-692).  AppSpec     *)
(* shows that a run of main() ends at _render_header_metrics; the          *)
(* statements below it are the question card and the handlers of its two   *)
(* buttons.  FlowSpec enters them: it is main() with the header rendered   *)
(* and every statement below the header as written.                        *)
(*                                                                         *)
(* A press of a card button reruns main() with every widget unchanged:     *)
(* the sidebar stores the values the session already holds, and the        *)
(* "ensure" branch is skipped because a question is displayed; such a run  *)
(* is one step from "idle" to the handler of the button.  The sidebar      *)
(* selections are made before the first question is shown and kept from    *)
(* then on, so the candidate set of a session is fixed; the "Start new     *)
(* run" button is pressed at any time.                                     *)
(***************************************************************************)
\* the JSONL rows earlier sessions left in user_data/attempts
HistoricalLogs ==
    {<<>>, <<[question_id |-> <<"q", "1">>, is_correct |-> Some(TRUE)]>>}

FlowInit ==
    /\ InitSession
    /\ NoPick
    /\ NoAgg
    /\ NoScore
    /\ attempts_log \in HistoricalLogs

FlowSidebar ==
    /\ Sidebar
    /\ global_exposures > 0 => UNCHANGED <<sidebar_vars, run_kind>>

\* if st.session_state[K["run_completed"]]: st.success(f"...
\* {st.session_state[K['score']]}..."): KeyError on K['score'] ends main()
\* before the "Start another quiz" button is created
PageCompleted ==
    /\ pc = "header"
    /\ run_completed
    /\ EndOfRun
    /\ last_call' = [op |-> "main", path |-> "KeyError"]
    /\ UNCHANGED <<session_vars, sidebar_vars, sequence_component_index,
                   storage_vars, fn_vars>>

\* the question card is rendered and none of its buttons was pressed
PageShown ==
    /\ pc = "header"
    /\ ~run_completed
    /\ EndOfRun
    /\ last_call' = [op |-> "main", path |-> "shown"]
    /\ UNCHANGED <<session_vars, sidebar_vars, sequence_component_index,
                   storage_vars, fn_vars>>

CardReached_Always == TRUE

\* main() reaches the question card and its buttons: a topic is selected
\* and the completed branch did not end the run
CardReached == selected_topic # None /\ ~run_completed

\* answers of the question card; None is "nothing selected"
CardAnswers == {None, Some("a")}

\* if st.button("Check answer"): submit_answer(score_fn,
\* user_answer=user_answer); the scorer returns either boolean
CheckAnswer ==
    /\ pc = "idle"
    /\ current_q # None
    /\ CardReached
    /\ \E is_corr \in BOOLEAN, user_answer \in CardAnswers :
           submit_answer(is_corr, user_answer)
    /\ pc' = "persist"
    /\ UNCHANGED <<sidebar_vars, sequence_component_index, storage_vars,
                   fn_vars>>

\* app._attempt_dict_to_attempt(a): the keyword argument
\* exposure_index_in_session=int(st.session_state.get(K["exposures_seen"],
\* 0)) looks up a key the dict K does not have
_attempt_dict_to_attempt(a) == Raised("KeyError")

\* storage.append_attempt(path, attempt): one more line in the file
append_attempt(log, row) == Append(log, row)

\* app._persist_latest_attempt_if_any(), called after submit_answer
PersistLatest ==
    /\ pc = "persist"
    /\ EndOfRun
    /\ IF attempts = <<>>
       THEN /\ last_call' = [op |-> "_persist_latest_attempt_if_any",
                             path |-> "no_attempts"]
            /\ UNCHANGED storage_vars
       ELSE IF last_persisted_attempt_id
                 = Some(attempts[Len(attempts)].attempt_id)
       THEN /\ last_call' = [op |-> "_persist_latest_attempt_if_any",
                             path |-> "already_persisted"]
            /\ UNCHANGED storage_vars
       ELSE LET attempt == _attempt_dict_to_attempt(attempts[Len(attempts)])
            IN IF attempt.raised
               THEN /\ last_call' =
                         [op |-> "_persist_latest_attempt_if_any",
                          path |-> attempt.error]
                    /\ UNCHANGED storage_vars
               ELSE /\ attempts_log' =
                         append_attempt(attempts_log, attempt.row)
                    /\ last_persisted_attempt_id'
                         = Some(attempts[Len(attempts)].attempt_id)
                    /\ last_call' =
                         [op |-> "_persist_latest_attempt_if_any",
                          path |-> "appended"]
                    /\ UNCHANGED persisted_rows_cache
    /\ UNCHANGED <<session_vars, sidebar_vars, sequence_component_index,
                   fn_vars>>

\* if st.button("Next question"): next_question(...)
NextQuestionButton ==
    /\ pc = "idle"
    /\ current_q # None
    /\ CardReached
    /\ global_exposures < MaxFlowExposures
    /\ next_question_from_bank
    /\ EndOfRun
    /\ UNCHANGED <<sidebar_vars, last_persisted_attempt_id, attempts_log,
                   agg_vars, score_vars>>

FlowNext ==
    \/ FlowSidebar
    \/ MainStartButton
    \/ MainEnsureRun
    \/ MainEnsureQuestion
    \/ PageCompleted
    \/ PageShown
    \/ CheckAnswer
    \/ PersistLatest
    \/ NextQuestionButton

FlowSpec == FlowInit /\ [][FlowNext]_vars

(***************************************************************************)
(* Properties of the run state machine (checked under Spec).               *)
(***************************************************************************)
\* positions in the buffer of the attempts of the current run
RunAttempts == {i \in 1..Len(attempts) : attempts[i].run_id = run_id}

\* positions in the buffer of the attempts of the exposure now displayed
CurrentExposureAttempts ==
    {i \in RunAttempts :
        attempts[i].exposure_index_in_run = run_questions_seen}

CurrentExposureScored ==
    current_q # None /\ CurrentExposureAttempts # {}

\* a quiz run begun by start_new_run: the target is numeric
InQuizRun == run_kind = "quiz" /\ run_question_target # None

\* every exposure of the run shown before the current one was scored
EveryEarlierExposureScored ==
    \A k \in 1..(run_questions_seen - 1) :
        \E i \in RunAttempts : attempts[i].exposure_index_in_run = k

\* C1: once the current exposure has been scored, every further
\* submit_answer call leaves the whole session (counters, answered and
\* is_correct flags, attempt buffer) unchanged, and no exposure ever has
\* more than one Attempt.
C1_SubmitIdempotent ==
    /\ [](Cardinality(CurrentExposureAttempts) <= 1)
    /\ [][(CurrentExposureScored /\ last_call'.op = "submit_answer")
             => UNCHANGED session_vars]_vars

\* C1 witness: a submit was ignored as a repeat; the exposure has one Attempt
C1_Witness ==
    /\ last_call = [op |-> "submit_answer", path |-> "already_scored"]
    /\ Cardinality(CurrentExposureAttempts) = 1

\* C2: in a quiz run in which every exposure was scored before the next was
\* shown, run_completed is true exactly when the number of scored
\* submissions has reached the target, and the submit that scores the N-th
\* one finds run_questions_seen = N.
C2_QuizLifecycle ==
    (InQuizRun /\ EveryEarlierExposureScored) =>
        /\ run_completed <=>
               (Cardinality(RunAttempts) >= run_question_target[1])
        /\ (last_call.path = "scored"
              /\ Cardinality(RunAttempts) = run_question_target[1])
             => run_questions_seen = run_question_target[1]

\* C2 witness: a quiz of two questions, both scored, completed, and a
\* redundant submit made afterwards
C2_Witness ==
    /\ InQuizRun
    /\ EveryEarlierExposureScored
    /\ run_question_target = Some(2)
    /\ Cardinality(RunAttempts) = 2
    /\ run_completed
    /\ last_call.path = "already_scored"

\* C3: a quiz run is completed only when the number of scored submissions
\* (Attempt records with the current run_id) has reached the target.
C3_CompletedOnlyAtTarget ==
    (InQuizRun /\ run_completed) =>
        Cardinality(RunAttempts) >= run_question_target[1]

\* C4: the attempt buffer only grows at its end, by exactly one record and
\* exactly in the steps that are scored submissions, and the attempt_ids of
\* its records are pairwise different.
C4_BufferAppendOnly ==
    /\ [](\A i, j \in 1..Len(attempts) :
             attempts[i].attempt_id = attempts[j].attempt_id => i = j)
    /\ [][/\ Len(attempts') \in {Len(attempts), Len(attempts) + 1}
          /\ SubSeq(attempts', 1, Len(attempts)) = attempts
          /\ (Len(attempts') = Len(attempts) + 1)
                <=> (last_call'.path = "scored")]_vars

\* C4 witness: two records in the buffer, and a run started after them
C4_Witness ==
    /\ Len(attempts) >= 2
    /\ last_call.op = "start_new_run"

\* the parts of a run state that start_new_run resets
RunIsFresh ==
    /\ run_questions_seen = 0
    /\ run_score = 0
    /\ run_completed = FALSE
    /\ current_q = None
    /\ answered = FALSE
    /\ is_correct = None
    /\ last_scored_qid = None

\* C7: every start_new_run step ends with a run_id that no earlier run,
\* attempt or session used, with the counters at 0, run_completed false, no
\* current question, answered false, is_correct and last_scored_qid None;
\* quiz_id and a numeric target are set in a quiz run, None in a free_play run.
C7_StartResetsRun ==
    [][(last_call'.op = "start_new_run") =>
          /\ run_id' # run_id
          /\ run_id' # session_id
          /\ \A i \in 1..Len(attempts) : attempts[i].run_id # run_id'
          /\ RunIsFresh'
          /\ (run_kind' = "quiz") =>
                 /\ quiz_id' # None
                 /\ quiz_id' # quiz_id
                 /\ run_question_target' # None
                 /\ run_question_target'[1] \in Nat \ {0}
          /\ (run_kind' = "free_play") =>
                 /\ quiz_id' = None
                 /\ run_question_target' = None
          /\ run_kind' \in RunKinds]_vars

\* C7 witness: a run started when the session already held scored attempts
C7_Witness ==
    /\ last_call.op = "start_new_run"
    /\ global_correct > 0
    /\ Len(attempts) >= 2
    /\ RunIsFresh

\* C8: every successful next_question step adds one to run_questions_seen
\* and to global_exposures, makes a well-formed provider payload the current
\* question and clears selected_response, answered, is_correct and
\* last_scored_qid; and a submit for an exposure that has no Attempt yet is
\* never turned away as already scored.
C8_NextQuestionNewExposure ==
    /\ [][(last_call'.op = "next_question" /\ last_call'.path = "ok") =>
             /\ run_questions_seen' = run_questions_seen + 1
             /\ global_exposures' = global_exposures + 1
             /\ \E qid \in QuestionIds : current_q' = Some(Payload(qid))
             /\ selected_response' = None
             /\ answered' = FALSE
             /\ is_correct' = None
             /\ last_scored_qid' = None]_vars
    /\ [][(last_call'.op = "submit_answer" /\ ~CurrentExposureScored)
             => last_call'.path # "already_scored"]_vars

\* C8 witness: two consecutive exposures of one run showed the same
\* question and each of them was scored
C8_Witness ==
    /\ last_call.path = "scored"
    /\ Len(attempts) >= 2
    /\ LET a == attempts[Len(attempts) - 1]
           b == attempts[Len(attempts)]
       IN /\ a.question_id = b.question_id
          /\ a.run_id = run_id /\ b.run_id = run_id
          /\ b.exposure_index_in_run = a.exposure_index_in_run + 1

\* a provider result that is no dict or lacks a required key
Malformed(q) ==
    \/ q.kind # "dict"
    \/ "question_id" \notin DOMAIN q.items
    \/ "question_type" \notin DOMAIN q.items

\* C9: a next_question step whose provider returns a malformed payload ends
\* in the error and leaves every session variable unchanged.
C9_MalformedPayloadRejected ==
    [][\A q \in ProviderResults :
          (Malformed(q) /\ next_question(q)) =>
              /\ last_call'.path = "ValueError"
              /\ UNCHANGED session_vars]_vars

\* C9 witness: the error was raised while an answered question was current
C9_Witness ==
    /\ last_call = [op |-> "next_question", path |-> "ValueError"]
    /\ current_q # None
    /\ answered
    /\ run_questions_seen > 0

\* C10: a submit_answer step made with no current question, or with the
\* answer None, returns before the scorer is called and leaves every
\* session variable unchanged.
C10_SubmitNoOp ==
    [][\A is_corr \in BOOLEAN, user_answer \in UserAnswers :
          (submit_answer(is_corr, user_answer)
             /\ (current_q = None \/ user_answer = None)) =>
              /\ last_call'.path \in {"no_question", "no_answer"}
              /\ UNCHANGED session_vars]_vars

\* C10 witness: a None answer was submitted for a displayed, unanswered
\* question
C10_Witness ==
    /\ last_call = [op |-> "submit_answer", path |-> "no_answer"]
    /\ current_q # None
    /\ ~answered
    /\ attempts # <<>>

\* the other case of a submit without effect: no current question
SubmitWithoutQuestionReached ==
    /\ last_call = [op |-> "submit_answer", path |-> "no_question"]
    /\ current_q = None

(***************************************************************************)
(* Properties of pick_next_question_id (checked under SelSpec).            *)
(***************************************************************************)
\* exposure count of a candidate; ids missing from stats count as 0
StatExposures(qid) ==
    IF qid \in DOMAIN stats THEN stats[qid].exposures ELSE 0

\* accuracy of a candidate as a fraction: correct/attempts, 0 when attempts
\* is 0 or the id is missing from stats
StatAccuracy(qid) ==
    IF qid \in DOMAIN stats /\ stats[qid].attempts > 0
    THEN <<stats[qid].correct, stats[qid].attempts>>
    ELSE <<0, 1>>

Candidates == SeqRange(candidate_ids)

\* the candidates whose exposure count is the minimum over all candidates
MinExposureGroup ==
    {q \in Candidates :
        \A o \in Candidates : StatExposures(q) <= StatExposures(o)}

\* C5: the id returned is a candidate and its exposure count is the
\* minimum over all candidates (so it is 0 whenever some candidate has 0).
C5_PickMinExposure ==
    picked # None =>
        /\ picked[1] \in Candidates
        /\ picked[1] \in MinExposureGroup
        /\ (\E q \in Candidates : StatExposures(q) = 0)
             => StatExposures(picked[1]) = 0

\* C5 witness: every candidate was seen before, with different exposure
\* counts, and one was returned
C5_Witness ==
    /\ picked # None
    /\ \A q \in Candidates : StatExposures(q) > 0
    /\ MinExposureGroup # Candidates

\* every member of the minimum-exposure group is a possible result
EveryMinExposureMemberPossible ==
    \A m \in MinExposureGroup :
        \E r \in RngOutcomes(candidate_ids) :
            pick_next_question_id(candidate_ids, stats, FALSE, r) = m

\* C6 as stated: with bias_weak_areas and more than one candidate in the
\* minimum-exposure group, the accuracy of the id returned equals the
\* minimum accuracy of that group; without bias_weak_areas every member of
\* the group is a possible result.
C6_ExactMinAccuracy ==
    /\ (picked # None /\ bias_weak_areas
          /\ Cardinality(MinExposureGroup) > 1) =>
           \A o \in MinExposureGroup :
               ~AccuracyLess(StatAccuracy(o), StatAccuracy(picked[1]))
    /\ (candidate_ids # <<>> /\ ~bias_weak_areas)
          => EveryMinExposureMemberPossible

\* C6 amended: with bias_weak_areas and more than one candidate in the
\* minimum-exposure group, the accuracy of the id returned is within 1e-9
\* of the minimum accuracy of that group; without bias_weak_areas every
\* member of the group is a possible result.
C6_MinAccuracyWithinTolerance ==
    /\ (picked # None /\ bias_weak_areas
          /\ Cardinality(MinExposureGroup) > 1) =>
           /\ picked[1] \in MinExposureGroup
           /\ \E m \in MinExposureGroup :
                 /\ \A o \in MinExposureGroup :
                        ~AccuracyLess(StatAccuracy(o), StatAccuracy(m))
                 /\ AccuracyClose(StatAccuracy(picked[1]), StatAccuracy(m))
    /\ (candidate_ids # <<>> /\ ~bias_weak_areas)
          => EveryMinExposureMemberPossible

\* C6 witness: a tie in minimum exposure between candidates of different
\* accuracy, resolved with bias_weak_areas
C6_Witness ==
    /\ picked # None
    /\ bias_weak_areas
    /\ Cardinality(MinExposureGroup) > 1
    /\ \E o \in MinExposureGroup :
           AccuracyLess(StatAccuracy(picked[1]), StatAccuracy(o))

(***************************************************************************)
(* Claims about free play.                                                 *)
(***************************************************************************)
\* C11: a free_play run never completes: in every state reached by
\* next_question and submit_answer after start_new_run('free_play'),
\* run_completed is false, however many questions were shown or answered.
C11_FreePlayNeverCompletes ==
    run_kind = "free_play" => ~run_completed

\* C11 witness: a free_play run in which two questions were shown and two
\* answers scored, the last step being a scored submission
C11_Witness ==
    /\ run_kind = "free_play"
    /\ run_questions_seen >= 2
    /\ Cardinality(RunAttempts) >= 2
    /\ last_call = [op |-> "submit_answer", path |-> "scored"]
    /\ ~run_completed

(***************************************************************************)
(* Claims about the application (checked under AppSpec).                   *)
(***************************************************************************)
\* a question of a run is on display and no run of main() is under way
RunInProgress == pc = "idle" /\ current_q # None

\* C12: mode and quiz identity stay consistent in every state of the
\* application in which a run is in progress, also after the user changed
\* the "Run type" selector: quiz_id is non-null exactly when run_kind is
\* "quiz", the target is numeric exactly then, and every Attempt record of
\* mode "quiz" carries a quiz_id and every one of mode "free_play" none.
C12_ModeQuizIdConsistent ==
    RunInProgress =>
        /\ (quiz_id # None) <=> (run_kind = "quiz")
        /\ (run_question_target # None) <=> (run_kind = "quiz")
        /\ \A i \in 1..Len(attempts) :
               (attempts[i].quiz_id # None) <=> (attempts[i].mode = "quiz")

(***************************************************************************)
(* Claims about compute_stats_from_attempt_rows (checked under AggSpec).   *)
(***************************************************************************)
\* the rows in the order given by a permutation p of their positions
Permuted(rows, p) == [i \in 1..Len(rows) |-> rows[p[i]]]

\* the per-id sum of two results
StatsSum(x, y) ==
    [k \in DOMAIN x \cup DOMAIN y |->
        LET a == StatsGet(x, k)
            b == StatsGet(y, k)
        IN [exposures |-> a.exposures + b.exposures,
            attempts |-> a.attempts + b.attempts,
            correct |-> a.correct + b.correct]]

\* C13: compute_stats_from_attempt_rows is order-independent: every
\* permutation of the rows gives the same map, and the result for a
\* concatenation of two row sequences is the per-id sum of the results
\* for each.
C13_StatsOrderIndependent ==
    stats_out # None =>
        /\ \A p \in Permutations(1..Len(attempt_rows)) :
               compute_stats_from_attempt_rows(Permuted(attempt_rows, p))
                   = stats_out[1]
        /\ \A n \in 0..Len(attempt_rows) :
               stats_out[1] =
                   StatsSum(compute_stats_from_attempt_rows(
                                SubSeq(attempt_rows, 1, n)),
                            compute_stats_from_attempt_rows(
                                SubSeq(attempt_rows, n + 1,
                                       Len(attempt_rows))))

\* C13 witness: three rows, two of one id with different is_correct and
\* one of another id, aggregated
C13_Witness ==
    /\ stats_out # None
    /\ Len(attempt_rows) = 3
    /\ RowQid(attempt_rows[1]) = RowQid(attempt_rows[3])
    /\ RowQid(attempt_rows[1]) # RowQid(attempt_rows[2])
    /\ Truthy(DictGet(attempt_rows[1], "is_correct", Some(FALSE)))
    /\ ~Truthy(DictGet(attempt_rows[3], "is_correct", Some(FALSE)))
    /\ DOMAIN stats_out[1] = {RowQid(attempt_rows[1]),
                              RowQid(attempt_rows[2])}

\* positions of the rows whose question_id is, after trimming, id
RowsOf(id) ==
    {i \in 1..Len(attempt_rows) :
        "question_id" \in DOMAIN attempt_rows[i]
          /\ Strip(attempt_rows[i].question_id) = id}

\* the rows that carry a true is_correct
CorrectRows ==
    {i \in 1..Len(attempt_rows) :
        "is_correct" \in DOMAIN attempt_rows[i]
          /\ attempt_rows[i].is_correct = Some(TRUE)}

\* C14: for each non-blank question_id occurring in the rows the result
\* has exposures = attempts = number of rows with that id and correct =
\* number of those rows whose is_correct is true, so that 0 <= correct <=
\* attempts = exposures; rows with missing or blank question_id contribute
\* nothing and ids with no rows are absent from the result.
C14_StatsCountRows ==
    stats_out # None =>
        /\ DOMAIN stats_out[1] =
               {id \in {Strip(i) : i \in RowIds} :
                   id # EmptyStr /\ RowsOf(id) # {}}
        /\ \A id \in DOMAIN stats_out[1] :
               /\ stats_out[1][id].exposures = Cardinality(RowsOf(id))
               /\ stats_out[1][id].attempts = Cardinality(RowsOf(id))
               /\ stats_out[1][id].correct =
                      Cardinality(RowsOf(id) \cap CorrectRows)
               /\ 0 <= stats_out[1][id].correct
               /\ stats_out[1][id].correct <= stats_out[1][id].attempts

\* C14 witness: a row without question_id, a row with a blank one and a
\* row with an id were aggregated into a result with that id alone
C14_Witness ==
    /\ stats_out # None
    /\ Len(attempt_rows) = 3
    /\ \E i, j, k \in 1..3 :
           /\ "question_id" \notin DOMAIN attempt_rows[i]
           /\ "question_id" \in DOMAIN attempt_rows[j]
           /\ attempt_rows[j].question_id = <<" ">>
           /\ "question_id" \in DOMAIN attempt_rows[k]
           /\ attempt_rows[k].question_id = <<" ", "q", "1">>
    /\ DOMAIN stats_out[1] = {<<"q", "1">>}
    /\ stats_out[1][<<"q", "1">>].exposures = 1

(***************************************************************************)
(* Claims about the scorer (checked under ScoreSpec).                      *)
(***************************************************************************)
\* score_attempt was called on a question of the given class
ScoredClass(class) ==
    /\ score_result # None
    /\ bank_question # None
    /\ bank_question[1].class = class

\* an MCQ question with options and a correct index inside them was scored
McqScored ==
    /\ ScoredClass("MCQRadioQuestion")
    /\ bank_question[1].options # <<>>
    /\ bank_question[1].correct_option_index \in
           0..(Len(bank_question[1].options) - 1)

\* the raw answer is an integer (a bool being the integer 0 or 1) equal to
\* the correct index
AnswerIsCorrectIndex ==
    /\ user_answer_raw.t \in {"int", "bool"}
    /\ IntValue(user_answer_raw) = bank_question[1].correct_option_index

\* the option at the correct index
CorrectOption ==
    bank_question[1].options[bank_question[1].correct_option_index + 1]

\* C15 as stated: score_attempt returns true iff the raw answer is the
\* integer equal to correct_option_index or the text equal to the option
\* at that index; every other index, text and shape is scored false.
C15_McqExactText ==
    McqScored =>
        /\ ~score_result[1].raised
        /\ score_result[1].ok <=>
               \/ AnswerIsCorrectIndex
               \/ /\ user_answer_raw.t = "str"
                  /\ user_answer_raw.s = CorrectOption

\* C15 amended: ... or a text that equals the option at that index after
\* its leading and trailing whitespace is removed.
C15_McqTrimmedText ==
    McqScored =>
        /\ ~score_result[1].raised
        /\ score_result[1].ok <=>
               \/ AnswerIsCorrectIndex
               \/ /\ user_answer_raw.t = "str"
                  /\ Strip(user_answer_raw.s) = CorrectOption

\* C15 witness: the padded text of the correct option was scored true
C15_Witness ==
    /\ McqScored
    /\ bank_question[1].correct_option_index = 1
    /\ user_answer_raw = [t |-> "str", s |-> <<" ", "B">>]
    /\ score_result[1].ok

\* gap (or slot) i is missing from the raw answer: a list too short, or a
\* map without the key
Missing(i, key) ==
    \/ user_answer_raw.t = "list" /\ Len(user_answer_raw.items) < i
    \/ user_answer_raw.t = "dict" /\ key \notin DOMAIN user_answer_raw.map

\* C16: TwoWayCloze scoring treats a gap that is missing from the raw
\* answer as the letter 'A': the answer is correct for that gap iff the
\* recorded correct letter is 'A'.
C16_MissingGapIsA ==
    ScoredClass("ClozeABQuestion") =>
        \A i \in 1..bank_question[1].gap_count :
            Missing(i, GapKey(i)) =>
                (score_result[1].details.per_gap[i].ok
                    <=> bank_question[1].correct_by_gap[i] = <<"A">>)

\* the raw answer supplies every gap of the question
SuppliesAllGaps ==
    /\ user_answer_raw.t \in {"list", "dict"}
    /\ \A i \in 1..bank_question[1].gap_count : ~Missing(i, GapKey(i))

\* what the raw answer gives for gap (or slot) i, "" when it is missing
Given(i, key) ==
    IF user_answer_raw.t = "list" /\ i <= Len(user_answer_raw.items)
    THEN user_answer_raw.items[i]
    ELSE IF user_answer_raw.t = "dict" /\ key \in DOMAIN user_answer_raw.map
    THEN user_answer_raw.map[key]
    ELSE EmptyStr

\* a supplied letter, trimmed and upper-cased
Letter(str) == [i \in 1..Len(Strip(str)) |-> UpperChar(Strip(str)[i])]

\* the same letters in the other form, and cut to the gaps of the question
OtherForm ==
    IF user_answer_raw.t = "list"
    THEN [t |-> "dict",
          map |-> [k \in {GapKey(i) : i \in 1..Len(user_answer_raw.items)}
                     |-> CHOOSE v \in Tokens :
                            \E i \in 1..Len(user_answer_raw.items) :
                               k = GapKey(i) /\ v = user_answer_raw.items[i]]]
    ELSE [t |-> "list",
          items |-> [i \in 1..bank_question[1].gap_count |->
                        user_answer_raw.map[GapKey(i)]]]

\* C17: for an answer supplying all gap_count gaps the result is true iff
\* for every gap the supplied letter, upper-cased and trimmed, equals the
\* recorded correct letter; the list form and the gap-keyed map form of the
\* same letters give the same result, entries beyond gap_count are ignored,
\* and the details contain one per-gap entry for each gap.
C17_ClozeABAllGaps ==
    (ScoredClass("ClozeABQuestion") /\ SuppliesAllGaps) =>
        /\ ~score_result[1].raised
        /\ score_result[1].ok <=>
               \A i \in 1..bank_question[1].gap_count :
                   Letter(Given(i, GapKey(i)))
                       = bank_question[1].correct_by_gap[i]
        /\ score_attempt(bank_question[1], OtherForm) = score_result[1]
        /\ DOMAIN score_result[1].details.per_gap
               = 1..bank_question[1].gap_count
        /\ \A i \in 1..bank_question[1].gap_count :
               score_result[1].details.per_gap[i].gap = i

\* C17 witness: two gaps, the letters given padded and in lower case
C17_Witness ==
    /\ ScoredClass("ClozeABQuestion")
    /\ bank_question[1].gap_count = 2
    /\ bank_question[1].correct_by_gap = <<<<"A">>, <<"B">>>>
    /\ user_answer_raw = [t |-> "list", items |-> <<<<" ", "a">>, <<" ", "B">>>>]
    /\ score_result[1].ok

\* the value of gap i the ListCloze scorer compares: trimmed
GapValue(i) == Strip(Given(i, GapKey(i)))

\* some gap holds a non-empty value already given in an earlier gap and is
\* not marked allow-repeat
DisallowedRepeat ==
    \E i \in 1..bank_question[1].gap_count :
        /\ GapValue(i) # EmptyStr
        /\ ~bank_question[1].allow_repeat_by_gap[i]
        /\ \E j \in 1..(i - 1) : GapValue(j) = GapValue(i)

\* the call failed the answer as a duplicate
FailedAsDuplicate ==
    /\ ~score_result[1].ok
    /\ "reason" \in DOMAIN score_result[1].details
    /\ score_result[1].details.reason = DuplicateReason

\* C18: with enforce_unique_across_gaps set the answer is scored false as
\* a duplicate iff some gap holds a non-empty value already given in an
\* earlier gap and that gap is not marked allow-repeat, whether or not the
\* values match the correct ones; in all other cases the answer is correct
\* iff every one of the gap_count values equals its gap's correct value.
C18_ListClozeDuplicates ==
    ScoredClass("ClozeListQuestion") =>
        /\ ~score_result[1].raised
        /\ FailedAsDuplicate <=>
               (bank_question[1].enforce_unique_across_gaps
                  /\ DisallowedRepeat)
        /\ ~FailedAsDuplicate =>
               (score_result[1].ok <=>
                   \A i \in 1..bank_question[1].gap_count :
                       GapValue(i) = bank_question[1].correct_by_gap[i])

\* C18 witness: the same value in both gaps, which is also the correct
\* value of both, is failed as a duplicate
C18_Witness ==
    /\ ScoredClass("ClozeListQuestion")
    /\ bank_question[1].gap_count = 2
    /\ bank_question[1].enforce_unique_across_gaps
    /\ bank_question[1].correct_by_gap = <<<<"A">>, <<"A">>>>
    /\ bank_question[1].allow_repeat_by_gap = <<TRUE, FALSE>>
    /\ user_answer_raw = [t |-> "list", items |-> <<<<"A">>, <<"A">>>>]
    /\ FailedAsDuplicate

\* the line id placed in slot i: trimmed, "" when missing
Placed(i) == Strip(Given(i, SlotKey(i)))

\* the raw answer is a list that rearranges the correct sequence
RearrangesCorrect ==
    /\ user_answer_raw.t = "list"
    /\ Len(user_answer_raw.items)
           = Len(bank_question[1].slot_correct_line_ids)
    /\ user_answer_raw.items # bank_question[1].slot_correct_line_ids
    /\ \E p \in Permutations(1..Len(user_answer_raw.items)) :
           \A i \in 1..Len(user_answer_raw.items) :
               user_answer_raw.items[i]
                   = bank_question[1].slot_correct_line_ids[p[i]]

SupportedShapes(class) ==
    IF class = "MCQRadioQuestion" THEN {"int", "bool", "str"}
    ELSE IF class \in {"ClozeABQuestion", "ClozeListQuestion",
                       "ProformaDragQuestion"}
    THEN {"list", "dict"}
    ELSE {}

NotInBankReached ==
    /\ bank_question = None
    /\ score_fn_result # None
    /\ ~score_fn_result[1].ok

(***************************************************************************)
(* Run counters and the attempt buffer                                     *)
(***************************************************************************)
\* positions in the buffer of the correct attempts of the current run
CorrectRunAttempts == {i \in RunAttempts : attempts[i].is_correct}

\* C26: in every state reached through start_new_run, next_question and
\* submit_answer, 0 <= run_score <= number of Attempt records carrying the
\* current run_id <= run_questions_seen, and run_score is the number of
\* those records whose is_correct is true.
C26_RunCountersOrdered ==
    /\ 0 <= run_score
    /\ run_score <= Cardinality(RunAttempts)
    /\ Cardinality(RunAttempts) <= run_questions_seen
    /\ run_score = Cardinality(CorrectRunAttempts)

\* C26 witness: a run with three exposures, two of them attempted, one
\* correctly
C26_Witness ==
    /\ run_score = 1
    /\ Cardinality(RunAttempts) = 2
    /\ run_questions_seen = 3

\* the last record of the buffer was produced by the exposure on display
LastAttemptIsCurrentExposure ==
    /\ current_q # None
    /\ Len(attempts) > 0
    /\ attempts[Len(attempts)].run_id = run_id
    /\ attempts[Len(attempts)].exposure_index_in_run = run_questions_seen
    /\ attempts[Len(attempts)].question_id = current_q[1].question_id

LastScoredIsCurrent ==
    current_q # None /\ last_scored_qid = Some(current_q[1].question_id)

\* C27: answered is true exactly when a current question exists and
\* last_scored_qid is its question_id, exactly when is_correct is a boolean
\* rather than None, exactly when the last record of the attempt buffer was
\* produced by the current exposure; and a step that leaves Answered is a
\* next_question that set a question or a start_new_run.
C27_ExposureSubState ==
    /\ [](/\ answered = LastScoredIsCurrent
          /\ answered = (is_correct # None)
          /\ answered = LastAttemptIsCurrentExposure
          /\ is_correct \in {None, Some(TRUE), Some(FALSE)})
    /\ [][(answered /\ ~answered') =>
             last_call' \in {[op |-> "next_question", path |-> "ok"],
                             [op |-> "start_new_run", path |-> "ok"]}]_vars

\* C27 witness: the second exposure of a run is answered, the first one was
\* answered too, and the question shown is the same both times
C27_Witness ==
    /\ answered
    /\ run_questions_seen = 2
    /\ Cardinality(RunAttempts) = 2
    /\ attempts[1].question_id = attempts[2].question_id
    /\ is_correct = Some(FALSE)

\* C28: the exposure_index_in_run values of the Attempt records of one run
\* are strictly increasing in buffer order, and those of the current run lie
\* between 1 and run_questions_seen; no two attempts of a run share one.
C28_OrdinalsIncrease ==
    /\ \A i, j \in 1..Len(attempts) :
          (i < j /\ attempts[i].run_id = attempts[j].run_id) =>
              attempts[i].exposure_index_in_run
                < attempts[j].exposure_index_in_run
    /\ \A i \in RunAttempts :
          /\ 1 <= attempts[i].exposure_index_in_run
          /\ attempts[i].exposure_index_in_run <= run_questions_seen

\* C28 witness: a run whose first and third exposures were attempted and
\* whose second was advanced past without an answer
C28_Witness ==
    /\ Cardinality(RunAttempts) = 2
    /\ \E i, j \in RunAttempts :
          /\ attempts[i].exposure_index_in_run = 1
          /\ attempts[j].exposure_index_in_run = 3

(***************************************************************************)
(* Properties of the application flow (checked under FlowSpec).            *)
(***************************************************************************)
\* the step is a call of next_question with the app's provider
ProviderStep == last_call'.op = "next_question"

\* the step is such a call and it displayed a question
SelectionStep == ProviderStep /\ last_call'.path = "ok"

\* the component in effect for the session's selections
ComponentInEffect ==
    _current_component_for_run(selected_topic, selected_mode,
                               selected_component)

\* C21: a call of next_question with the app's provider either displays a
\* question whose topic is the selected topic and whose component is the
\* component in effect, or - when no component is in effect or the filter
\* matches no question - ends with the provider's error, and then the
\* current question and the exposure counters are what they were.
C21_ProviderMatchesFilter ==
    [][ProviderStep =>
         IF \/ ComponentInEffect = None
            \/ filter_candidate_ids(selected_topic, ComponentInEffect) = <<>>
         THEN /\ last_call'.path = "ValueError"
              /\ UNCHANGED <<current_q, run_questions_seen,
                             global_exposures>>
         ELSE /\ last_call'.path = "ok"
              /\ current_q' # None
              /\ Some(current_q'[1].topic) = selected_topic
              /\ Some(current_q'[1].component) = ComponentInEffect]_vars

\* C21 witness: with two other questions of the topic in the bank, the
\* provider displayed the one of the selected component
C21_Witness ==
    /\ last_call = [op |-> "next_question", path |-> "ok"]
    /\ selected_topic = Some("vat")
    /\ selected_component = Some("penalties")
    /\ current_q # None
    /\ current_q[1].question_id = "q2"

\* the provider's error was reached with a topic selected
ProviderErrorReached ==
    /\ last_call = [op |-> "next_question", path |-> "ValueError"]
    /\ selected_topic # None
    /\ current_q = None

\* C22, as claimed: as long as some candidate has never been shown in the
\* session, next_question does not show a candidate that was shown before,
\* whether or not the earlier exposures were answered.
C22_UnseenFirstOverExposures ==
    [][SelectionStep =>
         ((\E c \in SeqRange(candidate_ids') : c \notin shown_ids)
            => picked'[1] \notin shown_ids)]_vars

\* the question has an attempt row, in the log or in the session's buffer
HasAttemptRow(qid) ==
    \/ \E i \in 1..Len(attempts) : attempts[i].question_id = qid
    \/ \E i \in 1..Len(attempts_log) :
          attempts_log[i].question_id = IdChars(qid)

\* C22, amended: as long as some candidate has no attempt row,
\* next_question does not show a candidate that has one; an exposure
\* advanced past without an answer leaves its question unseen.
C22_UnattemptedFirst ==
    [][SelectionStep =>
         ((\E c \in SeqRange(candidate_ids') : ~HasAttemptRow(c))
            => ~HasAttemptRow(picked'[1]))]_vars

\* C22 witness: of two candidates the one without an attempt row is
\* displayed, after the other one was displayed and answered
C22_Witness ==
    /\ last_call = [op |-> "next_question", path |-> "ok"]
    /\ candidate_ids = <<"q1", "q3">>
    /\ picked = Some("q3")
    /\ "q1" \in shown_ids
    /\ \E i \in 1..Len(attempts) : attempts[i].question_id = "q1"
    /\ attempts_log = <<>>

\* the first component of COMPONENT_SEQUENCE the bank has a question of the
\* topic for
FirstComponentOf(topic) ==
    LET has == {i \in 1..Len(ComponentSequence) :
                   \E qid \in BankIds :
                       /\ Payload(qid).topic = topic
                       /\ Payload(qid).component = ComponentSequence[i]}
    IN ComponentSequence[CHOOSE i \in has : \A k \in has : i <= k]

\* C30: sequence_component_index is 0 in every state; in full_sequence
\* mode every call of next_question finds a component in effect that has a
\* question of the topic (the fallback loop is not entered), and the
\* question displayed is of the first component, in the fixed order, that
\* has questions for the topic.
C30_SequenceStaysAtFirst ==
    /\ [](sequence_component_index = 0)
    /\ [][(ProviderStep /\ selected_mode = "full_sequence") =>
            /\ ComponentInEffect # None
            /\ filter_candidate_ids(selected_topic, ComponentInEffect) # <<>>
            /\ last_call'.path = "ok"
            /\ current_q'[1].component
                 = FirstComponentOf(selected_topic[1])]_vars

\* C30 witness: in full_sequence mode a question of a topic whose first
\* component with questions is the second of the order was displayed twice
C30_Witness ==
    /\ selected_mode = "full_sequence"
    /\ selected_topic = Some("cgt")
    /\ current_q # None
    /\ current_q[1].component = "requirements"
    /\ run_questions_seen = 2
    /\ sequence_component_index = 0

\* the attempt of the buffer has a row in the durable log
InLog(a) ==
    \E k \in 1..Len(attempts_log) :
        /\ "attempt_id" \in DOMAIN attempts_log[k]
        /\ attempts_log[k].attempt_id = a.attempt_id

\* the QuestionStats of an id when every attempt row of the log, and every
\* attempt of the buffer that is not in the log, is counted once
CountedOnce(qid) ==
    LET logged == {k \in 1..Len(attempts_log) :
                      attempts_log[k].question_id = IdChars(qid)}
        fresh == {i \in 1..Len(attempts) :
                     /\ attempts[i].question_id = qid
                     /\ ~InLog(attempts[i])}
        n == Cardinality(logged) + Cardinality(fresh)
        c == Cardinality({k \in logged :
                             attempts_log[k].is_correct = Some(TRUE)})
               + Cardinality({i \in fresh : attempts[i].is_correct})
    IN [exposures |-> n, attempts |-> n, correct |-> c]

C24_AttemptsLoggedOnce ==
    pc = "idle" =>
        \A i \in 1..Len(attempts) :
            Cardinality({k \in 1..Len(attempts_log) :
                            /\ "attempt_id" \in DOMAIN attempts_log[k]
                            /\ attempts_log[k].attempt_id
                                 = attempts[i].attempt_id}) = 1

\* the persist step after a scored 'Check answer' ended with the KeyError
PersistRaised ==
    /\ last_call = [op |-> "_persist_latest_attempt_if_any",
                    path |-> "KeyError"]
    /\ attempts # <<>>
    /\ attempts_log = <<>>

\* number of attempts of the buffer on one question
AttemptsOn(qid) ==
    Cardinality({i \in 1..Len(attempts) : attempts[i].question_id = qid})

\* C25: from an empty attempt history and with a fixed candidate set, in
\* every state the numbers of recorded attempts of any two candidates
\* differ by at most one.
C25_BalancedCoverage ==
    attempts_log = <<>> =>
        \A c1, c2 \in SeqRange(candidate_ids) :
            AttemptsOn(c1) - AttemptsOn(c2) <= 1

\* C25 witness: two candidates, three attempts, two of them on the same
\* question, and one exposure advanced past without an answer
C25_Witness ==
    /\ attempts_log = <<>>
    /\ candidate_ids = <<"q1", "q3">>
    /\ Len(attempts) = 3
    /\ AttemptsOn("q3") = 2
    /\ global_exposures > 3

\* C29: from a state in which the run is completed, no step is a
\* next_question or a submit_answer, and the run stays completed, with its
\* counters and the buffer unchanged, unless the step is the start_new_run
\* that replaces the run.
C29_CompletedIsTerminal ==
    [][run_completed =>
         /\ last_call'.op \notin {"next_question", "submit_answer"}
         /\ \/ /\ run_completed'
               /\ UNCHANGED <<run_id, run_questions_seen, run_score,
                              attempts, current_q>>
            \/ /\ last_call'.op = "start_new_run"
               /\ run_id' # run_id]_vars

\* C29 witness: a completed quiz run met a rerun of main() that ended in
\* the completed branch
C29_Witness ==
    /\ run_completed
    /\ last_call = [op |-> "main", path |-> "KeyError"]
    /\ current_q # None
    /\ run_questions_seen >= 5

====
